---------------------------- MODULE Spec2Model ----------------------------
(***************************************************************************)
(* A model of roulette.py: the wheel built by BinBuilder / EuroBinBuilder, *)
(* the Table, Game.cycle, the four Player strategies and the Simulator.    *)
(***************************************************************************)
EXTENDS Integers, Sequences, FiniteSets, TLC

(***************************************************************************)
(* Outcome, PrisonOutcome and Bin.                                         *)
(***************************************************************************)

\* Outcome(name, odds); PrisonOutcome is the same data with another class.
Outcome(name, odds) == [name |-> name, odds |-> odds, prison |-> FALSE]

PrisonOutcome(name, odds) == [name |-> name, odds |-> odds, prison |-> TRUE]

\* Outcome.__eq__ / __hash__ : two outcomes are equal iff their names are.
OutcomeEq(a, b) == a.name = b.name

\* "x in s" for a set (or frozenset) of outcomes: membership by name.
OutcomeIn(o, S) == \E x \in S : OutcomeEq(x, o)

\* "{}-{}".format(...) and its longer forms: the numbers joined by "-".
RECURSIVE Fmt(_)
Fmt(ns) ==
    IF Len(ns) = 1 THEN ToString(ns[1])
    ELSE ToString(ns[1]) \o "-" \o Fmt(Tail(ns))

(***************************************************************************)
(* BinBuilder: every add_* method is the sequence of wheel.add_outcome     *)
(* calls <<bin, outcome>> it makes, in the order it makes them.            *)
(***************************************************************************)

add_straight_bets ==
    [k \in 1..38 |->
        IF k <= 37 THEN <<k - 1, Outcome(ToString(k - 1), 35)>>
        ELSE <<37, Outcome("00", 35)>>]

\* left/right pairs taken along the number line, across the rows' ends
LeftRightSplits_across_rows ==
    [k \in 1..70 |->
        LET n == (k - 1) \div 2 + 1
        IN  <<n + ((k - 1) % 2), Outcome(Fmt(<<n, n + 1>>), 17)>>]

\* range(12) x range(1,3): n = 3r + i, the pair (n, n+1) goes to bins n, n+1
LeftRightSplits ==
    [k \in 1..48 |->
        LET p == (k - 1) \div 2
            n == 3 * (p \div 2) + (p % 2) + 1
        IN  <<n + ((k - 1) % 2), Outcome(Fmt(<<n, n + 1>>), 17)>>]

\* range(1,34): the pair (n, n+3) goes to bins n, n+3
TopDownSplits ==
    [k \in 1..66 |->
        LET n == (k - 1) \div 2 + 1
        IN  <<n + 3 * ((k - 1) % 2), Outcome(Fmt(<<n, n + 3>>), 17)>>]

add_split_bets == LeftRightSplits \o TopDownSplits

add_street_bets ==
    [k \in 1..36 |->
        LET n == 3 * ((k - 1) \div 3) + 1
        IN  <<n + ((k - 1) % 3), Outcome(Fmt(<<n, n + 1, n + 2>>), 11)>>]

\* range(11): add_corner_block(3r+1) then add_corner_block(3r+2), each on
\* the bins idx + [0, 1, 3, 4]
\* a corner block laid along the number line instead of as a square
CornerOffsets_in_line == <<0, 1, 2, 3>>

CornerOffsets == <<0, 1, 3, 4>>

add_corner_bets ==
    [k \in 1..88 |->
        LET b   == (k - 1) \div 4
            idx == 3 * (b \div 2) + (b % 2) + 1
        IN  <<idx + CornerOffsets[((k - 1) % 4) + 1],
              Outcome(Fmt(<<idx, idx + 1, idx + 3, idx + 4>>), 8)>>]

add_line_bets ==
    [k \in 1..66 |->
        LET n == 3 * ((k - 1) \div 6) + 1
        IN  <<n + ((k - 1) % 6),
              Outcome(Fmt(<<n, n + 1, n + 2, n + 3, n + 4, n + 5>>), 5)>>]

add_dozen_bets ==
    [k \in 1..36 |->
        LET d == (k - 1) \div 12
            m == (k - 1) % 12
        IN  <<12 * d + m + 1,
              Outcome("dozen(" \o ToString(d + 1) \o ")", 2)>>]

add_column_bets ==
    [k \in 1..36 |->
        LET c == (k - 1) \div 12
            r == (k - 1) % 12
        IN  <<3 * r + c + 1,
              Outcome("column(" \o ToString(c + 1) \o ")", 2)>>]

red_bins == {1, 3, 5, 7, 9, 12, 14, 16, 18, 19, 21, 23, 25, 27, 30, 32, 34, 36}

\* the even-money bets with "high" on the bins below 19, as the docstring
\* of add_even_money_bets has it
add_even_money_bets_as_documented ==
    [k \in 1..108 |->
        LET n == (k - 1) \div 3 + 1
            j == (k - 1) % 3
        IN  IF j = 0
            THEN <<n, Outcome(IF n >= 1 /\ n < 19 THEN "high" ELSE "low", 1)>>
            ELSE IF j = 1
            THEN <<n, Outcome(IF n % 2 = 0 THEN "even" ELSE "odd", 1)>>
            ELSE <<n, Outcome(IF n \in red_bins THEN "red" ELSE "black", 1)>>]

\* for n in range(1,37): low/high, then even/odd, then red/black
add_even_money_bets ==
    [k \in 1..108 |->
        LET n == (k - 1) \div 3 + 1
            j == (k - 1) % 3
        IN  IF j = 0
            THEN <<n, Outcome(IF n >= 1 /\ n < 19 THEN "low" ELSE "high", 1)>>
            ELSE IF j = 1
            THEN <<n, Outcome(IF n % 2 = 0 THEN "even" ELSE "odd", 1)>>
            ELSE <<n, Outcome(IF n \in red_bins THEN "red" ELSE "black", 1)>>]

add_five_bets ==
    [k \in 1..5 |-> <<IF k <= 4 THEN k - 1 ELSE 37, Outcome("00-0-1-2-3", 6)>>]

build_bins ==
    add_straight_bets \o add_split_bets \o add_street_bets \o add_corner_bets
    \o add_line_bets \o add_dozen_bets \o add_column_bets
    \o add_even_money_bets \o add_five_bets

(***************************************************************************)
(* EuroBinBuilder overrides add_straight_bets and add_five_bets and adds   *)
(* add_four_bets after the inherited build_bins.                           *)
(***************************************************************************)

\* european straight bets whose "0" is a plain Outcome
Euro_add_straight_bets_plain_zero ==
    [k \in 1..38 |->
        IF k <= 36 THEN <<k, Outcome(ToString(k), 35)>>
        ELSE IF k = 37 THEN <<37, Outcome("00", 35)>>
        ELSE <<0, Outcome("0", 35)>>]

Euro_add_straight_bets ==
    [k \in 1..38 |->
        IF k <= 36 THEN <<k, Outcome(ToString(k), 35)>>
        ELSE IF k = 37 THEN <<37, Outcome("00", 35)>>
        ELSE <<0, PrisonOutcome("0", 35)>>]

add_four_bets == [k \in 1..4 |-> <<k - 1, Outcome("0-1-2-3", 6)>>]

Euro_build_bins ==
    Euro_add_straight_bets \o add_split_bets \o add_street_bets
    \o add_corner_bets \o add_line_bets \o add_dozen_bets \o add_column_bets
    \o add_even_money_bets \o add_four_bets

(***************************************************************************)
(* Wheel.                                                                  *)
(***************************************************************************)

Rules == {"american", "european"}

\* Wheel.__init__ picks the builder from the rules
BuilderCalls(rules) ==
    IF rules = "american" THEN build_bins
    ELSE IF rules = "european" THEN Euro_build_bins
    ELSE <<>>

\* Wheel.add_outcome folded over the calls: a bin keeps, of the outcomes
\* added to it, the first one of each name (frozenset union by __eq__)
BinsAfter(calls) ==
    [b \in 0..37 |->
        {calls[k][2] : k \in {i \in 1..Len(calls) :
            /\ calls[i][1] = b
            /\ ~\E j \in 1..(i - 1) :
                  calls[j][1] = b /\ OutcomeEq(calls[j][2], calls[i][2])}}]

\* ... and all_outcomes keeps the first outcome of each name
AllOutcomesAfter(calls) ==
    {calls[k][2] : k \in {i \in 1..Len(calls) :
        ~\E j \in 1..(i - 1) : OutcomeEq(calls[j][2], calls[i][2])}}

AmericanWheel ==
    [bins |-> BinsAfter(build_bins), all_outcomes |-> AllOutcomesAfter(build_bins)]

EuropeanWheel ==
    [bins |-> BinsAfter(Euro_build_bins),
     all_outcomes |-> AllOutcomesAfter(Euro_build_bins)]

Wheel(rules) == IF rules = "american" THEN AmericanWheel ELSE EuropeanWheel

\* Wheel.get_outcome(name): the registered outcome of that name
get_outcome(rules, name) ==
    CHOOSE o \in Wheel(rules).all_outcomes : o.name = name

\* Wheel.get(idx) / the Bin that Wheel.next() returns for a drawn index
Bin(rules, idx) == Wheel(rules).bins[idx]

\* Wheel.next(): rng.randint(0, 37), any of the 38 indices
BinIndices == 0..37

(***************************************************************************)
(* Bet and Table.                                                          *)
(***************************************************************************)

\* Python's None, for Player.stake and Player.rounds before a session and
\* for locals that hold nothing (stakes, rounds and indices are >= 0)
None == -1

Bet(amount, outcome) == [amount |-> amount, outcome |-> outcome]

Bet_win_amount(bet) == bet.amount * bet.outcome.odds

RECURSIVE SumSeq(_)
SumSeq(s) == IF s = <<>> THEN 0 ELSE Head(s) + SumSeq(Tail(s))

RECURSIVE MaxSeq(_)
MaxSeq(s) ==
    IF Len(s) = 1 THEN s[1]
    ELSE LET m == MaxSeq(Tail(s)) IN IF s[1] > m THEN s[1] ELSE m

\* sum(x.amount for x in self.bets)
Wagered(bs) == SumSeq([i \in 1..Len(bs) |-> bs[i].amount])

\* a table that rejects a total equal to the limit
Table_is_valid_strict(bs, lim) == Wagered(bs) < lim

Table_is_valid(bs, lim) == ~(Wagered(bs) > lim)

\* Table.place_bet: append, then validate; the list keeps the bet when
\* InvalidBet is raised
Table_place_bet(bs, lim, bet) ==
    LET appended == Append(bs, bet)
    IN  [bets |-> appended, raised |-> ~Table_is_valid(appended, lim)]

\* a clear_bets that rebinds nothing
Table_clear_bets_kept(bs) == bs

Table_clear_bets(bs) == <<>>

(***************************************************************************)
(* Player and its four subclasses.  A player is the record                 *)
(* [stake, rounds, multiplier, red_count]; multiplier exists on Martingale *)
(* and SevenReds, red_count on SevenReds, and both stay 0 elsewhere.       *)
(***************************************************************************)

Kinds == {"Passenger57", "Martingale", "SevenReds", "PlayerRandom"}

MartingaleFamily == {"Martingale", "SevenReds"}

\* Player.__init__ and the subclasses' __init__
Player_init == [stake |-> None, rounds |-> None, multiplier |-> 0, red_count |-> 0]

Player_playing(p) ==
    IF p.rounds = None \/ p.stake = None THEN FALSE
    ELSE IF p.rounds > 0 /\ p.stake > 0 THEN TRUE
    ELSE FALSE

\* Passenger57 overrides playing() with "return True"
playing(k, p) == IF k = "Passenger57" THEN TRUE ELSE Player_playing(p)

\* a winners that never counts the round
Player_winners_uncounted(p) == p

\* a winners that counts every round twice
Player_winners_twice(p) ==
    IF p.rounds # None /\ p.rounds # 0
    THEN [p EXCEPT !.rounds = p.rounds - 2]
    ELSE p

\* Player.winners: "if self.rounds: self.rounds -= 1" (None and 0 are falsy)
Player_winners(p) ==
    IF p.rounds # None /\ p.rounds # 0
    THEN [p EXCEPT !.rounds = p.rounds - 1]
    ELSE p

\* a winners that never takes the count back to 0
SevenReds_winners_unreset(p, rules, idx) ==
    LET q == Player_winners(p)
    IN  IF OutcomeIn(get_outcome(rules, "red"), Bin(rules, idx))
        THEN [q EXCEPT !.red_count = q.red_count + 1]
        ELSE q

\* SevenReds.winners: super().winners, then count or reset the reds
SevenReds_winners(p, rules, idx) ==
    LET q == Player_winners(p)
    IN  IF OutcomeIn(get_outcome(rules, "red"), Bin(rules, idx))
        THEN [q EXCEPT !.red_count = q.red_count + 1]
        ELSE [q EXCEPT !.red_count = 0]

winners(k, p, rules, idx) ==
    IF k = "SevenReds" THEN SevenReds_winners(p, rules, idx)
    ELSE Player_winners(p)

\* A call's result: the value returned, or the exception raised
Returned(v) == [err |-> "none", val |-> v]

Raised(e) == [err |-> e, val |-> 0]

Player_win(bet) == Returned(Bet_win_amount(bet))

\* Player.lose: "bet.lose_amount * 0.5" multiplies the bound method, not
\* its result, by a float: a TypeError
Player_lose(bet) ==
    IF bet.outcome.prison THEN Raised("TypeError") ELSE Returned(0)

\* a win that pays the winnings into the stake on top of the amount
Martingale_win_paid(p, bet) ==
    [player |-> [p EXCEPT !.multiplier = 0,
                          !.stake = p.stake + bet.amount + Bet_win_amount(bet)],
     result |-> Player_win(bet)]

Martingale_win(p, bet) ==
    [player |-> [p EXCEPT !.multiplier = 0, !.stake = p.stake + bet.amount],
     result |-> Player_win(bet)]

Martingale_lose(p, bet) ==
    [player |-> [p EXCEPT !.multiplier = p.multiplier + 1],
     result |-> Player_lose(bet)]

win(k, p, bet) ==
    IF k \in MartingaleFamily THEN Martingale_win(p, bet)
    ELSE [player |-> p, result |-> Player_win(bet)]

lose(k, p, bet) ==
    IF k \in MartingaleFamily THEN Martingale_lose(p, bet)
    ELSE [player |-> p, result |-> Player_lose(bet)]

\* place_bets: the set of its possible effects [player, bets, raised,
\* error]
Placed(p, bs, lim, bet) ==
    LET t == Table_place_bet(bs, lim, bet)
    IN  [player |-> p, bets |-> t.bets, raised |-> t.raised,
         error |-> IF t.raised THEN "InvalidBet" ELSE "none"]

Passenger57_place_bets(p, bs, lim, rules) ==
    {Placed(p, bs, lim, Bet(10, get_outcome(rules, "black")))}

\* a sizing that forgets the table limit
Martingale_amount_unlimited(p, lim) ==
    LET a == 2 ^ p.multiplier IN IF a > p.stake THEN p.stake ELSE a

\* a sizing that forgets the stake
Martingale_amount_unstaked(p, lim) ==
    LET a == 2 ^ p.multiplier IN IF a > lim THEN lim ELSE a

\* amount = 2**multiplier, capped by the limit and then by the stake
Martingale_amount(p, lim) ==
    LET a == 2 ^ p.multiplier
        b == IF a > lim THEN lim ELSE a
    IN  IF b > p.stake THEN p.stake ELSE b

Martingale_place_bets(p, bs, lim, rules) ==
    LET amount == Martingale_amount(p, lim)
    IN  {Placed([p EXCEPT !.stake = p.stake - amount], bs, lim,
                Bet(amount, get_outcome(rules, "black")))}

SevenReds_place_bets(p, bs, lim, rules) ==
    IF p.red_count - 7 >= 0 THEN Martingale_place_bets(p, bs, lim, rules)
    ELSE {[player |-> p, bets |-> bs, raised |-> FALSE, error |-> "none"]}

\* rng.sample(all_outcomes, 1)[0] on the set all_outcomes: any registered
\* outcome where random.sample accepts a set (Python up to 3.10); from
\* Python 3.11 on sample raises TypeError for a set, before any bet is made
PlayerRandom_place_bets(p, bs, lim, rules) ==
    {Placed(p, bs, lim, Bet(p.stake, o)) : o \in Wheel(rules).all_outcomes}
    \cup {[player |-> p, bets |-> bs, raised |-> TRUE, error |-> "TypeError"]}

place_bets(k, p, bs, lim, rules) ==
    CASE k = "Passenger57" -> Passenger57_place_bets(p, bs, lim, rules)
      [] k = "Martingale" -> Martingale_place_bets(p, bs, lim, rules)
      [] k = "SevenReds" -> SevenReds_place_bets(p, bs, lim, rules)
      [] OTHER -> PlayerRandom_place_bets(p, bs, lim, rules)

(***************************************************************************)
(* Bounds of the model.                                                    *)
(***************************************************************************)

\* longest table a test builds by calling Table.place_bet itself
MaxBets == 2

\* Game.cycle calls a test makes in a row
MaxCycles == 2

\* largest Simulator.init_duration of a Passenger57 or Martingale run
MaxDuration == 4

\* largest Simulator.samples
MaxSamples == 2

\* rounds SevenReds is given beyond the seven it waits
MaxRedRounds == 2

\* largest Simulator.init_duration of a PlayerRandom run
MaxRandomRounds == 2

\* largest seed the two Wheels under test are constructed with
MaxSeed == 2

\* most Wheel.next() calls a test makes on one Wheel
MaxDraws == 2

\* number of states of the generator that stands for random.Random
RngStates == 41

\* Python's lists and integers are unbounded; a session's history and its
\* round count are folded at HistCap, which only a session that never ends
\* reaches (every other one stops within init_duration rounds); so is the
\* count of bets lost in a row
HistCap ==
    IF MaxDuration > 7 + MaxRedRounds THEN MaxDuration + 1
    ELSE 7 + MaxRedRounds + 1

(***************************************************************************)
(* The state.                                                              *)
(***************************************************************************)
VARIABLES
    driver,         \* who calls the objects: a test of the Table, a test of
                    \* the Game, or the Simulator
    rules,          \* the rules the Wheel was built with (bins never change)
    limit,          \* Table.limit
    bets,           \* Table.bets
    kind,           \* the Player's class
    stake,          \* Player.stake
    rounds,         \* Player.rounds
    multiplier,     \* Martingale.multiplier
    red_count,      \* SevenReds.red_count
    init_duration,  \* Simulator.init_duration
    init_stake,     \* Simulator.init_stake
    samples,        \* Simulator.samples
    durations,      \* Simulator.durations
    maxima,         \* Simulator.maxima
    todo,           \* gather: iterations of range(samples) still to run
    stakes,         \* session: the local list stakes
    duration,       \* session: the local counter duration
    winning,        \* cycle: index of the bin winning_outcomes, or None
    outcomes,       \* cycle: the local list outcomes
    next_bet,       \* cycle: position of "for b in self.table.bets"
    ret,            \* cycle: what the last completed call returned
    pc,             \* the statement the program is at
    error,          \* the exception that ended the last call, or "none"
    log,            \* history: the calls made by the current Game.cycle call
                    \* (or the clear_bets call a test has just made)
    entry_playing,  \* history: player.playing() when Game.cycle was entered
    entry_bets,     \* history: Table.bets when the for loop was reached
    placed,         \* history: the last Table.place_bet call
    lost_run,       \* history: bets lost in a row since the last bet won
    ncycles,        \* history: Game.cycle calls made by the test, or by the
                    \* session, so far
    red_run,        \* history: bins holding "red" drawn in a row up to now
                    \* in a session of a SevenReds player
    prev_run,       \* history: red_run before the last bin was drawn
    seed,           \* the seed two Wheels under test are constructed with
    rngA, rngB,     \* Wheel.rng of the one and of the other Wheel under test
    drawsA, drawsB  \* history: the bin indices their next() calls returned

vars == <<driver, rules, limit, bets, kind, stake, rounds, multiplier, red_count,
          init_duration, init_stake, samples, durations, maxima, todo,
          stakes, duration, winning, outcomes, next_bet, ret, pc, error,
          log, entry_playing, entry_bets, placed, lost_run, ncycles,
          red_run, prev_run, seed, rngA, rngB, drawsA, drawsB>>

wheel_vars == <<driver, rules, limit, kind>>

streak_vars == <<red_run, prev_run>>

rng_vars == <<seed, rngA, rngB, drawsA, drawsB>>

player_vars == <<stake, rounds, multiplier, red_count>>

sim_vars == <<init_duration, init_stake, samples, durations, maxima, todo,
              stakes, duration>>

frame_vars == <<winning, outcomes, next_bet, ret, log, entry_playing, entry_bets>>

Player ==
    [stake |-> stake, rounds |-> rounds, multiplier |-> multiplier,
     red_count |-> red_count]

SetPlayer(q) ==
    /\ stake' = q.stake
    /\ rounds' = q.rounds
    /\ multiplier' = q.multiplier
    /\ red_count' = q.red_count

Ev(op, i) == [op |-> op, bet |-> i]

NoCall == [called |-> FALSE]

NoRet == [sum |-> None, count |-> None]

\* the record of a Table.place_bet call that took bs to t.bets
Call(bs, t, who, stk) ==
    [called |-> TRUE, before |-> bs, bet |-> t.bets[Len(t.bets)],
     raised |-> t.raised, by |-> who, stake_before |-> stk]

(***************************************************************************)
(* Initial states.                                                         *)
(***************************************************************************)

InitObjects(who, k, r, lim) ==
    /\ driver = who
    /\ kind = k /\ rules = r /\ limit = lim
    /\ bets = <<>>
    /\ stake = Player_init.stake /\ rounds = Player_init.rounds
    /\ multiplier = Player_init.multiplier
    /\ red_count = Player_init.red_count
    /\ durations = <<>> /\ maxima = <<>>
    /\ todo = None /\ stakes = <<>> /\ duration = 0
    /\ winning = None /\ outcomes = <<>> /\ next_bet = 1 /\ ret = NoRet
    /\ pc = "idle" /\ error = "none"
    /\ log = <<>> /\ entry_playing = FALSE /\ entry_bets = <<>>
    /\ placed = NoCall /\ lost_run = 0 /\ ncycles = 0
    /\ red_run = 0 /\ prev_run = 0

\* no pair of Wheels is under test: the one Wheel of the Table draws any bin
NoWheelPair ==
    /\ seed = None /\ rngA = None /\ rngB = None
    /\ drawsA = <<>> /\ drawsB = <<>>

\* Simulator.__init__ sets 250 rounds, stake 100 and 50 samples; the
\* attributes are plain fields, and a run here uses smaller values
InitSimulator(d, s, n) ==
    /\ init_duration = d /\ init_stake = s /\ samples = n

NoSimulator == InitSimulator(None, None, None)

\* stakes.append(x) and duration += 1, folded at HistCap
Recorded(s, x) == IF Len(s) <= HistCap THEN Append(s, x) ELSE s

Counted(n) == IF n < HistCap THEN n + 1 ELSE n

(***************************************************************************)
(* Game.cycle, one action per statement.                                   *)
(***************************************************************************)

\* a cycle that reports the winners after resolving the bets
cycle_order_late_winners ==
    <<"place_bets", "next", "resolve", "winners", "clear_bets">>

\* the order of the statements of Game.cycle
cycle_order == <<"place_bets", "next", "winners", "resolve", "clear_bets">>

StepAfter(step) ==
    LET i == CHOOSE j \in 1..Len(cycle_order) : cycle_order[j] = step
    IN  IF i = Len(cycle_order) THEN "returned" ELSE cycle_order[i + 1]

\* "if player.playing():" guards the call of place_bets
Game_asks_player(k, p) == playing(k, p)

\* "if b.outcome in winning_outcomes": membership in the Bin, by name
Bet_wins(bet, r, idx) == OutcomeIn(bet.outcome, Bin(r, idx))

\* entering Game.cycle(player): a fresh frame
EnterCycle ==
    /\ pc' = cycle_order[1]
    /\ winning' = None /\ outcomes' = <<>> /\ next_bet' = 1 /\ ret' = NoRet
    /\ log' = <<>> /\ entry_bets' = <<>>
    /\ entry_playing' = playing(kind, Player)
    /\ placed' = NoCall
    /\ error' = "none"

CyclePlaceBets ==
    /\ pc = "place_bets"
    /\ IF Game_asks_player(kind, Player)
       THEN /\ \E r \in place_bets(kind, Player, bets, limit, rules) :
                  /\ SetPlayer(r.player)
                  /\ bets' = r.bets
                  /\ placed' = IF r.bets = bets THEN NoCall
                               ELSE Call(bets, r, "player", stake)
                  /\ IF r.raised
                     THEN pc' = "raised" /\ error' = r.error
                     ELSE pc' = StepAfter("place_bets") /\ error' = error
            /\ log' = Append(log, Ev("place_bets", 0))
       ELSE /\ pc' = StepAfter("place_bets")
            /\ UNCHANGED <<player_vars, bets, error, placed, log>>
    /\ UNCHANGED <<wheel_vars, rng_vars, streak_vars, sim_vars, winning,
                   outcomes, next_bet, ret, entry_playing, entry_bets,
                   lost_run, ncycles>>

\* the run of red bins is history kept for the sessions of a SevenReds
WatchesReds == driver = "simulator" /\ kind = "SevenReds"

\* winning_outcomes = self.table.wheel.next()
CycleNext ==
    /\ pc = "next"
    /\ \E idx \in BinIndices :
          /\ winning' = idx
          /\ red_run' = IF ~WatchesReds THEN red_run
                        ELSE IF OutcomeIn(get_outcome(rules, "red"),
                                          Bin(rules, idx))
                        THEN Counted(red_run) ELSE 0
    /\ prev_run' = IF ~WatchesReds THEN prev_run ELSE red_run
    /\ log' = Append(log, Ev("next", 0))
    /\ pc' = StepAfter("next")
    /\ UNCHANGED <<wheel_vars, rng_vars, player_vars, sim_vars, bets,
                   outcomes, next_bet, ret, entry_playing, entry_bets, error,
                   placed, lost_run, ncycles>>

\* player.winners(winning_outcomes)
CycleWinners ==
    /\ pc = "winners"
    /\ SetPlayer(winners(kind, Player, rules, winning))
    /\ log' = Append(log, Ev("winners", 0))
    /\ pc' = StepAfter("winners")
    /\ UNCHANGED <<wheel_vars, rng_vars, streak_vars, sim_vars, bets, winning,
                   outcomes, next_bet, ret, entry_playing, entry_bets, error,
                   placed, lost_run, ncycles>>

\* one iteration of "for b in self.table.bets": win or lose, append
CycleResolve ==
    /\ pc = "resolve"
    /\ next_bet <= Len(bets)
    /\ LET b    == bets[next_bet]
           won  == Bet_wins(b, rules, winning)
           r    == IF won THEN win(kind, Player, b) ELSE lose(kind, Player, b)
       IN  /\ SetPlayer(r.player)
           /\ log' = Append(log, Ev(IF won THEN "win" ELSE "lose", next_bet))
           /\ lost_run' = IF won THEN 0 ELSE Counted(lost_run)
           /\ IF r.result.err = "none"
              THEN /\ outcomes' = Append(outcomes, r.result.val)
                   /\ next_bet' = next_bet + 1
                   /\ pc' = pc /\ error' = error
              ELSE /\ outcomes' = outcomes /\ next_bet' = next_bet
                   /\ pc' = "raised" /\ error' = r.result.err
    /\ entry_bets' = bets
    /\ UNCHANGED <<wheel_vars, rng_vars, streak_vars, sim_vars, bets, winning,
                   ret, entry_playing, placed, ncycles>>

\* the for loop is exhausted
CycleResolved ==
    /\ pc = "resolve"
    /\ next_bet > Len(bets)
    /\ entry_bets' = bets
    /\ pc' = StepAfter("resolve")
    /\ UNCHANGED <<wheel_vars, rng_vars, streak_vars, player_vars, sim_vars,
                   bets, winning, outcomes, next_bet, ret, log, entry_playing,
                   error, placed, lost_run, ncycles>>

\* self.table.clear_bets(); return sum(outcomes), len(outcomes)
CycleClear ==
    /\ pc = "clear_bets"
    /\ bets' = Table_clear_bets(bets)
    /\ log' = Append(log, Ev("clear_bets", 0))
    /\ ret' = [sum |-> SumSeq(outcomes), count |-> Len(outcomes)]
    /\ pc' = StepAfter("clear_bets")
    /\ UNCHANGED <<wheel_vars, rng_vars, streak_vars, player_vars, sim_vars,
                   winning, outcomes, next_bet, entry_playing, entry_bets,
                   error, placed, lost_run, ncycles>>

CycleStep ==
    \/ CyclePlaceBets
    \/ CycleNext
    \/ CycleWinners
    \/ CycleResolve
    \/ CycleResolved
    \/ CycleClear

(***************************************************************************)
(* A test that drives the Table and the Game itself (no Simulator).        *)
(***************************************************************************)

\* the caller has the control: nothing is running
Idle ==
    /\ driver \in {"table test", "game test"}
    /\ pc \in {"idle", "returned", "raised"}

\* what the caller drops when it makes its next call
ForgetFrame ==
    /\ winning' = None /\ outcomes' = <<>> /\ next_bet' = 1 /\ ret' = NoRet
    /\ log' = <<>> /\ entry_playing' = FALSE /\ entry_bets' = <<>>

\* table.place_bet(bet), called by the test
TestPlaceBet(bet) ==
    /\ Idle
    /\ Len(bets) < MaxBets
    /\ LET t == Table_place_bet(bets, limit, bet)
       IN  /\ bets' = t.bets
           /\ placed' = Call(bets, t, "test", stake)
           /\ IF t.raised
              THEN pc' = "raised" /\ error' = "InvalidBet"
              ELSE pc' = "idle" /\ error' = "none"
    /\ ForgetFrame
    /\ UNCHANGED <<wheel_vars, rng_vars, streak_vars, player_vars, sim_vars,
                   lost_run, ncycles>>

\* table.clear_bets(), called by the test
TestClearBets ==
    /\ Idle
    /\ bets' = Table_clear_bets(bets)
    /\ placed' = NoCall
    /\ pc' = "idle" /\ error' = "none"
    /\ winning' = None /\ outcomes' = <<>> /\ next_bet' = 1 /\ ret' = NoRet
    /\ log' = <<Ev("clear_bets", 0)>>
    /\ entry_playing' = FALSE /\ entry_bets' = <<>>
    /\ UNCHANGED <<wheel_vars, rng_vars, streak_vars, player_vars, sim_vars,
                   lost_run, ncycles>>

\* player.set_stake(s); player.set_rounds(r), while the test sets up
TestSeat(s, r) ==
    /\ driver = "game test"
    /\ pc = "idle" /\ ncycles = 0 /\ bets = <<>>
    /\ stake = None /\ rounds = None
    /\ stake' = s /\ rounds' = r
    /\ UNCHANGED <<wheel_vars, rng_vars, streak_vars, sim_vars, frame_vars,
                   bets, multiplier, red_count, pc, error, placed, lost_run,
                   ncycles>>

\* game.cycle(player), called by the test
TestCycle ==
    /\ driver = "game test"
    /\ Idle
    /\ ncycles < MaxCycles
    /\ ncycles' = ncycles + 1
    /\ EnterCycle
    /\ UNCHANGED <<wheel_vars, rng_vars, streak_vars, player_vars, sim_vars,
                   bets, lost_run>>

\* the Table tests: limit 100, 90 on the table, then 10 or 11
TableLimits == {15, 100}

TableAmounts == {10, 11, 90}

\* the Game tests: a limit of 15, a stake of 3 for MaxCycles rounds, and
\* bets the test places before a cycle
GameKinds == {"Passenger57", "Martingale", "SevenReds"}

TestBets(who, r) ==
    IF who = "table test"
    THEN {Bet(a, get_outcome(r, n)) : a \in TableAmounts, n \in {"black", "0"}}
    ELSE {Bet(5, get_outcome(r, "black")), Bet(10, get_outcome(r, "0"))}

InitTable ==
    /\ \E r \in Rules, lim \in TableLimits :
          InitObjects("table test", "Passenger57", r, lim)
    /\ NoSimulator /\ NoWheelPair

InitGame ==
    /\ \E k \in GameKinds, r \in Rules : InitObjects("game test", k, r, 15)
    /\ NoSimulator /\ NoWheelPair

(***************************************************************************)
(* Two Wheels constructed with the same seed and rules, and their next().  *)
(***************************************************************************)

\* random.Random as a generator over RngStates states: seed(n) fixes the
\* state, a draw reads it and steps it
Rng_seeded(n) == n % RngStates

Rng_randint(st) == st % 38

Rng_step(st) == (5 * st + 3) % RngStates

\* what the operating system may have seeded an unseeded Random() with
Entropy == 0..(RngStates - 1)

Seeds == 0..MaxSeed

\* Wheel.__init__: "self.rng = random.Random()", then "if seed:
\* self.rng.seed(seed)"; None and 0 are falsy and leave the generator as
\* the system seeded it
Wheel_init_rng(sd, e) ==
    IF sd # None /\ sd # 0 THEN Rng_seeded(sd) ELSE e

\* Wheel.next(): "self.bins[self.rng.randint(0, 37)]"
Wheel_next(st) == [idx |-> Rng_randint(st), rng |-> Rng_step(st)]

\* wheel.next() on the one or the other Wheel, called by the test
TestWheelNext(w) ==
    /\ driver = "wheel test"
    /\ IF w = "A"
       THEN /\ Len(drawsA) < MaxDraws
            /\ drawsA' = Append(drawsA, Wheel_next(rngA).idx)
            /\ rngA' = Wheel_next(rngA).rng
            /\ UNCHANGED <<rngB, drawsB>>
       ELSE /\ Len(drawsB) < MaxDraws
            /\ drawsB' = Append(drawsB, Wheel_next(rngB).idx)
            /\ rngB' = Wheel_next(rngB).rng
            /\ UNCHANGED <<rngA, drawsA>>
    /\ UNCHANGED <<wheel_vars, seed, streak_vars, player_vars, sim_vars,
                   frame_vars, bets, pc, error, placed, lost_run, ncycles>>

\* Wheel(seed, rules) twice
InitWheel ==
    /\ \E r \in Rules : InitObjects("wheel test", "Passenger57", r, 100)
    /\ NoSimulator
    /\ seed \in Seeds
    /\ \E e \in Entropy : rngA = Wheel_init_rng(seed, e)
    /\ \E e \in Entropy : rngB = Wheel_init_rng(seed, e)
    /\ drawsA = <<>> /\ drawsB = <<>>

(***************************************************************************)
(* Simulator.gather and Simulator.session.                                 *)
(***************************************************************************)

\* a session that records no maximum
Session_statistics_no_maximum(ds, ms, d, ss) ==
    [durations |-> Append(ds, d), maxima |-> ms]

\* a session that records the stake it ended with in place of the maximum
Session_statistics_final_stake(ds, ms, d, ss) ==
    [durations |-> Append(ds, d), maxima |-> Append(ms, ss[Len(ss)])]

\* self.durations.append(duration); self.maxima.append(max(stakes))
Session_statistics(ds, ms, d, ss) ==
    [durations |-> Append(ds, d), maxima |-> Append(ms, MaxSeq(ss))]

\* simulator.gather(): "for _ in range(self.samples)"
GatherCall ==
    /\ driver = "simulator"
    /\ pc = "idle"
    /\ todo' = samples
    /\ pc' = "gather"
    /\ UNCHANGED <<wheel_vars, rng_vars, streak_vars, player_vars, frame_vars,
                   bets, init_duration, init_stake, samples, durations,
                   maxima, stakes, duration, error, placed, lost_run,
                   ncycles>>

\* a session that sets the rounds and the stake on the player as the last
\* session left it, without calling its __init__
SessionStart_without_init ==
    /\ pc = "gather"
    /\ todo > 0
    /\ todo' = todo - 1
    /\ SetPlayer([Player EXCEPT !.rounds = init_duration,
                                !.stake = init_stake])
    /\ stakes' = <<init_stake>>
    /\ duration' = 0
    /\ lost_run' = 0 /\ ncycles' = 0
    /\ red_run' = 0 /\ prev_run' = 0
    /\ placed' = NoCall
    /\ pc' = "session_loop"
    /\ UNCHANGED <<wheel_vars, rng_vars, frame_vars, bets, init_duration,
                   init_stake, samples, durations, maxima, error>>

\* the next iteration calls session(): player.__init__, set_rounds,
\* set_stake, stakes = [player.stake], duration = 0
SessionStart ==
    /\ pc = "gather"
    /\ todo > 0
    /\ todo' = todo - 1
    /\ SetPlayer([Player_init EXCEPT !.rounds = init_duration,
                                     !.stake = init_stake])
    /\ stakes' = <<init_stake>>
    /\ duration' = 0
    /\ lost_run' = 0 /\ ncycles' = 0
    /\ red_run' = 0 /\ prev_run' = 0
    /\ placed' = NoCall
    /\ pc' = "session_loop"
    /\ UNCHANGED <<wheel_vars, rng_vars, frame_vars, bets, init_duration,
                   init_stake, samples, durations, maxima, error>>

GatherDone ==
    /\ pc = "gather"
    /\ todo = 0
    /\ pc' = "done"
    /\ UNCHANGED <<wheel_vars, rng_vars, streak_vars, player_vars, sim_vars,
                   frame_vars, bets, error, placed, lost_run, ncycles>>

\* "while self.player.playing(): self.game.cycle(self.player)"
SessionCycle ==
    /\ pc = "session_loop"
    /\ playing(kind, Player)
    /\ EnterCycle
    /\ ncycles' = Counted(ncycles)
    /\ UNCHANGED <<wheel_vars, rng_vars, streak_vars, player_vars, sim_vars,
                   bets, lost_run>>

\* after the cycle: stakes.append(self.player.stake); duration += 1
SessionRecord ==
    /\ driver = "simulator"
    /\ pc = "returned"
    /\ stakes' = Recorded(stakes, stake)
    /\ duration' = Counted(duration)
    /\ pc' = "session_loop"
    /\ ForgetFrame
    /\ UNCHANGED <<wheel_vars, rng_vars, streak_vars, player_vars, bets,
                   init_duration, init_stake, samples, durations, maxima,
                   todo, error, placed, lost_run, ncycles>>

\* the loop ends: record the statistics and return stakes
SessionEnd ==
    /\ pc = "session_loop"
    /\ ~playing(kind, Player)
    /\ LET st == Session_statistics(durations, maxima, duration, stakes)
       IN  durations' = st.durations /\ maxima' = st.maxima
    /\ pc' = "gather"
    /\ UNCHANGED <<wheel_vars, rng_vars, streak_vars, player_vars, frame_vars,
                   bets, init_duration, init_stake, samples, todo, stakes,
                   duration, error, placed, lost_run, ncycles>>

\* the runs: [limit, stake, duration, samples] for each kind of player
Config(lim, s, d, n) == [limit |-> lim, stake |-> s, duration |-> d, samples |-> n]

SimConfigs(k) ==
    CASE k = "Passenger57" ->
            {Config(lim, 100, MaxDuration, n) :
                lim \in {5, 500}, n \in {1, MaxSamples}}
      [] k = "Martingale" ->
            {Config(c[1], c[2], d, n) :
                c \in {<<500, 1000>>, <<2, 1000>>, <<500, 2>>},
                d \in {1, MaxDuration}, n \in {1, MaxSamples}}
      [] k = "SevenReds" ->
            {Config(c[1], c[2], 7 + MaxRedRounds, n) :
                c \in {<<500, 1000>>, <<1, 1>>}, n \in {1, MaxSamples}}
      [] OTHER ->
            {Config(2, 2, MaxRandomRounds, 1), Config(2, 1000, 1, 1),
             Config(2, 2, 1, MaxSamples)}

InitSim ==
    \E k \in Kinds, r \in Rules :
        \E c \in SimConfigs(k) :
            /\ InitObjects("simulator", k, r, c.limit)
            /\ InitSimulator(c.duration, c.stake, c.samples)
            /\ NoWheelPair

\* every call and every step, whoever drives
Next ==
    \/ \E b \in TestBets(driver, rules) : TestPlaceBet(b)
    \/ TestClearBets
    \/ TestSeat(3, MaxCycles)
    \/ TestCycle
    \/ GatherCall
    \/ SessionStart
    \/ GatherDone
    \/ SessionCycle
    \/ SessionRecord
    \/ SessionEnd
    \/ CycleStep
    \/ \E w \in {"A", "B"} : TestWheelNext(w)

Init == InitTable \/ InitGame \/ InitSim \/ InitWheel

Spec == Init /\ [][Next]_vars

\* the Table alone
NextTable ==
    \/ \E b \in TestBets(driver, rules) : TestPlaceBet(b)
    \/ TestClearBets

SpecTable == InitTable /\ [][NextTable]_vars

\* the Game driven by a test
NextGame ==
    \/ \E b \in TestBets(driver, rules) : TestPlaceBet(b)
    \/ TestClearBets
    \/ TestSeat(3, MaxCycles)
    \/ TestCycle
    \/ CycleStep

SpecGame == InitGame /\ [][NextGame]_vars

\* the Wheel alone
NextWheel == \E w \in {"A", "B"} : TestWheelNext(w)

SpecWheel == InitWheel /\ [][NextWheel]_vars

\* the Simulator
NextSim ==
    \/ GatherCall
    \/ SessionStart
    \/ GatherDone
    \/ SessionCycle
    \/ SessionRecord
    \/ SessionEnd
    \/ CycleStep

SpecSim == InitSim /\ [][NextSim]_vars

\* the runs whose termination is checked: fewer, every kind among them
FairConfigs(k) ==
    CASE k = "Passenger57" ->
            {Config(lim, 100, MaxDuration, 1) : lim \in {5, 500}}
      [] k = "Martingale" ->
            {Config(500, s, MaxDuration, MaxSamples) : s \in {2, 1000}}
               \cup {Config(500, 1000, 1, 1)}
      [] k = "SevenReds" ->
            {Config(500, 1000, 7 + MaxRedRounds, 1)}
      [] OTHER ->
            {Config(2, 2, MaxRandomRounds, 1), Config(2, 1000, 1, 1)}

InitFair ==
    \E k \in Kinds, r \in Rules :
        \E c \in FairConfigs(k) :
            /\ InitObjects("simulator", k, r, c.limit)
            /\ InitSimulator(c.duration, c.stake, c.samples)
            /\ NoWheelPair

\* the program is one thread that always takes its next step
FairSim == InitFair /\ [][NextSim]_vars /\ WF_vars(NextSim)

(***************************************************************************)
(* The claims.                                                             *)
(***************************************************************************)

Min(a, b) == IF a < b THEN a ELSE b

\* the operations logged by the current call, and how often one occurs
Ops == [i \in 1..Len(log) |-> log[i].op]

Count(op) == Cardinality({i \in 1..Len(log) : log[i].op = op})

\* C1: after any sequence of Table.place_bet and Table.clear_bets calls,
\* rejected ones included, the amounts on the table sum to at most the limit.
C1_TotalWithinLimit == Wagered(bets) <= limit

\* C2: when Table.place_bet raises InvalidBet, Table.bets is what it was
\* before the call.
C2_RejectedBetDiscarded ==
    (placed.called /\ placed.raised) => bets = placed.before

\* C3: Table.place_bet raises InvalidBet if and only if the amounts already
\* on the table plus the bet's amount exceed the limit; a total equal to the
\* limit is accepted.
C3_RaisesIffOverLimit ==
    placed.called =>
        /\ (pc = "raised" /\ error = "InvalidBet") <=>
               (Wagered(placed.before) + placed.bet.amount > limit)
        /\ placed.raised <=> (pc = "raised")
        /\ Wagered(placed.before) + placed.bet.amount = limit => pc = "idle"

\* limit 100, 90 on the table, a bet of 10 is accepted
C3_BetToTheLimitAccepted ==
    /\ limit = 100 /\ placed.called
    /\ Wagered(placed.before) = 90 /\ placed.bet.amount = 10
    /\ pc = "idle" /\ Len(bets) = 2

\* a session is running / has ended, by returning or by an exception
InSession == pc = "session_loop"

SessionOver == pc \in {"gather", "raised"}

\* C4: every Simulator.session terminates after finitely many rounds,
\* whichever of the four strategies plays.
C4_SessionsTerminate == InSession ~> SessionOver

\* C4, amended: a session of a player that uses Player.playing (Martingale,
\* SevenReds, PlayerRandom) ends, by returning or with the exception a call
\* raised, after finitely many rounds: at most init_duration of them.
C4_CountedSessionsTerminate ==
    /\ (InSession /\ kind # "Passenger57") ~> SessionOver
    /\ [](kind # "Passenger57" => duration <= init_duration)

\* a Martingale session that returned after all its init_duration rounds
C4_SessionPlayedOut ==
    /\ kind = "Martingale" /\ init_duration = MaxDuration
    /\ pc = "gather" /\ durations = <<init_duration>>

\* gather has returned with one duration and one maximum per sample, every
\* duration within the cap and every maximum at least the initial stake
GatherComplete ==
    /\ pc = "done"
    /\ Len(durations) = samples /\ Len(maxima) = samples
    /\ \A i \in 1..Len(durations) : durations[i] \in 0..init_duration
    /\ \A i \in 1..Len(maxima) : maxima[i] >= init_stake

\* C5: Simulator.gather on a Passenger57 player (at a table whose limit
\* admits its bet of 10) eventually finishes with samples durations and
\* samples maxima, each duration in [0, init_duration] and each maximum at
\* least init_stake.
C5_Passenger57GatherCompletes ==
    (kind = "Passenger57" /\ limit >= 10) => <>GatherComplete

\* C5, amended: Simulator.gather on a Martingale or SevenReds player
\* eventually finishes so.
C5_MartingaleGatherCompletes ==
    (kind \in MartingaleFamily) => <>GatherComplete

\* gather has finished its MaxSamples sessions of a Martingale player
C5_GatherFinished ==
    /\ kind = "Martingale" /\ samples = MaxSamples /\ init_stake = 2
    /\ GatherComplete /\ durations[1] < init_duration

\* C6: in a Game.cycle call, place_bets is called only if the player was
\* playing, and first; then the bin is drawn, once; then winners is called,
\* once, whether or not a bet was placed; then the bets are resolved in turn;
\* clear_bets comes last, and a call that returns has made every step.
C6_CycleOrder ==
    LET skip == IF entry_playing THEN 1 ELSE 0
    IN  /\ \A i \in 1..(IF pc = "idle" THEN 0 ELSE Len(log)) :
              \/ i <= skip /\ Ops[i] = "place_bets"
              \/ i = skip + 1 /\ Ops[i] = "next" /\ winning # None
              \/ i = skip + 2 /\ Ops[i] = "winners"
              \/ /\ i > skip + 2 /\ i < Len(log)
                 /\ Ops[i] \in {"win", "lose"} /\ log[i].bet = i - skip - 2
              \/ /\ i > skip + 2 /\ i = Len(log)
                 /\ \/ Ops[i] \in {"win", "lose"} /\ log[i].bet = i - skip - 2
                    \/ Ops[i] = "clear_bets" /\ pc = "returned"
        /\ pc = "returned" =>
              /\ Count("next") = 1 /\ Count("winners") = 1
              /\ Count("clear_bets") = 1
              /\ Count("place_bets") = skip
              /\ Len(log) = skip + 3 + Len(entry_bets)

\* a player that is not playing: no place_bets, yet winners is called and
\* the bet a test placed is resolved
C6_CycleOfIdlePlayer ==
    /\ driver = "game test" /\ pc = "returned" /\ ~entry_playing
    /\ Len(log) = 4 /\ Len(entry_bets) = 1

\* C7: in every Game.cycle call each bet on the table is resolved once,
\* by win if its outcome is in the winning bin and by lose otherwise, and
\* the call returns the sum of the values and the number of bets.
C7_EveryBetResolved ==
    /\ (pc = "raised" /\ Len(log) > 0) => Ops[Len(log)] \notin {"win", "lose"}
    /\ pc = "returned" =>
          /\ ret.count = Len(entry_bets)
          /\ ret.sum = SumSeq(outcomes)
          /\ Len(outcomes) = Len(entry_bets)
          /\ \A i \in 1..Len(entry_bets) :
                /\ Cardinality({j \in 1..Len(log) :
                       log[j].op \in {"win", "lose"} /\ log[j].bet = i}) = 1
                /\ \E j \in 1..Len(log) :
                       /\ log[j].bet = i
                       /\ log[j].op = IF OutcomeIn(entry_bets[i].outcome,
                                                   Bin(rules, winning))
                                      THEN "win" ELSE "lose"

\* C8: clear_bets leaves the table empty, with nothing wagered; a Game.cycle
\* call that returns has cleared the table once, after the last bet was
\* resolved; the table is empty at the start of every round of a session.
C8_TableCleared ==
    /\ (Len(log) > 0 /\ Ops[Len(log)] = "clear_bets") =>
          bets = <<>> /\ Wagered(bets) = 0
    /\ pc = "returned" =>
          /\ bets = <<>>
          /\ Count("clear_bets") = 1 /\ Ops[Len(log)] = "clear_bets"
          /\ Len(outcomes) = Len(entry_bets)
    /\ (driver = "simulator" /\ pc \in {"session_loop", "place_bets"}) =>
          bets = <<>>

\* the third round of a session starts after two rounds with a bet each
C8_RoundStartsEmpty ==
    /\ driver = "simulator" /\ pc = "place_bets" /\ duration = 2
    /\ placed = NoCall /\ lost_run > 0 /\ bets = <<>>

\* the value the claim gives Player.win and Player.lose for a bet, doubled
TwiceClaimed(bet, won) ==
    IF won THEN 2 * bet.amount * bet.outcome.odds
    ELSE IF bet.outcome.prison THEN bet.amount * bet.outcome.odds
    ELSE 0

\* C9: Player.win returns amount * odds; Player.lose returns 0 for a plain
\* Outcome and half of amount * odds for a PrisonOutcome; neither call ends
\* in an error.
C9_WinLoseValues ==
    /\ error # "TypeError"
    /\ \A i \in 1..Len(outcomes) :
          2 * outcomes[i] =
              TwiceClaimed(entry_bets[i], Bet_wins(entry_bets[i], rules, winning))

\* C10: a bet Martingale (or SevenReds) places is on black, and its amount
\* is min(2^k, limit, stake before the placement), k the number of bets lost
\* in a row since the last bet won or the start of the session.
C10_MartingaleBet ==
    (/\ driver = "simulator" /\ kind \in MartingaleFamily
     /\ placed.called /\ pc \in {"next", "winners", "raised"}) =>
        /\ placed.by = "player"
        /\ placed.bet.outcome.name = "black"
        /\ placed.bet.amount =
              Min(2 ^ lost_run, Min(limit, placed.stake_before))

\* limit 500, stake 1000: after three losses the fourth bet is 8
C10_FourthBetIsEight ==
    /\ kind = "Martingale" /\ limit = 500 /\ init_stake = 1000
    /\ pc = "next" /\ duration = 3 /\ lost_run = 3
    /\ placed.called /\ placed.bet.amount = 8 /\ placed.stake_before = 993

\* the red bins drawn in a row before the round in progress began
StreakBefore == IF winning = None THEN red_run ELSE prev_run

InCycle == pc \in {"place_bets", "next", "winners", "resolve", "clear_bets",
                   "returned", "raised"}

\* C11: SevenReds places a bet in a round only if the winning bins of (at
\* least) the 7 rounds just before it all held "red"; between rounds its
\* red_count is the number of red bins drawn in a row, so it is 0 after a
\* round whose bin was not red; and after 6 red rounds and a round that was
\* not red no bet is on the table and the stake was never touched.
C11_SevenRedsWaits ==
    (driver = "simulator" /\ kind = "SevenReds") =>
        /\ (InCycle /\ (placed.called \/ bets # <<>>)) => StreakBefore >= 7
        /\ pc = "session_loop" => red_count = red_run
        /\ (pc = "session_loop" /\ red_run = 0 /\ duration > 0) => red_count = 0
        /\ (pc = "session_loop" /\ duration = 7 /\ prev_run = 6 /\ red_run = 0)
              => /\ bets = <<>> /\ placed = NoCall
                 /\ \A i \in 1..Len(stakes) : stakes[i] = init_stake

\* six red rounds, then one that is not red: the seventh round ends with
\* the count at 0, no bet placed and the stake whole
C11_SixRedsThenBlack ==
    /\ driver = "simulator" /\ kind = "SevenReds"
    /\ pc = "session_loop" /\ duration = 7 /\ prev_run = 6 /\ red_run = 0
    /\ red_count = 0 /\ stake = init_stake /\ placed = NoCall

\* after seven red rounds the eighth round has a bet on the table
C11_BetAfterSevenReds ==
    /\ driver = "simulator" /\ kind = "SevenReds"
    /\ pc = "next" /\ duration = 7 /\ red_run = 7 /\ placed.called

\* C12: in a session of a Martingale or SevenReds player no call of
\* Table.place_bet raises InvalidBet, whatever the (positive) limit, the
\* (positive) initial stake and the bins drawn.
C12_NoInvalidBet ==
    (driver = "simulator" /\ kind \in MartingaleFamily) =>
        /\ error # "InvalidBet"
        /\ placed.called => ~placed.raised
        /\ Wagered(bets) <= limit

\* limit 2, stake 1000: after two losses 2^2 exceeds the limit, and the bet
\* placed is the limit itself
C12_BetClampedToLimit ==
    /\ driver = "simulator" /\ kind = "Martingale" /\ limit = 2
    /\ pc = "next" /\ multiplier = 2
    /\ placed.called /\ ~placed.raised /\ placed.bet.amount = limit

\* C13: two Wheels constructed with the same seed (0 included) and the same
\* rules return the same bin index at every position of their sequences of
\* next() calls.
C13_SameSeedSameBins ==
    driver = "wheel test" =>
        \A i \in 1..Min(Len(drawsA), Len(drawsB)) : drawsA[i] = drawsB[i]

\* the outcomes of bin idx whose name is one of names
Named(r, idx, names) == {o \in Bin(r, idx) : o.name \in names}

\* the red numbers of a roulette layout
StandardReds ==
    {1, 3, 5, 7, 9, 12, 14, 16, 18, 19, 21, 23, 25, 27, 30, 32, 34, 36}

EvenMoneyNames == {"high", "low", "even", "odd", "red", "black"}

\* the last bin index the first Wheel under test drew
LastDrawn == IF drawsA = <<>> THEN None ELSE drawsA[Len(drawsA)]

\* what the claim says of the even-money outcomes of bin n of a wheel built
\* with rules r
EvenMoneyAsClaimed(r, n) ==
    IF n \in 1..36
    THEN /\ Cardinality(Named(r, n, {"high", "low"})) = 1
         /\ Cardinality(Named(r, n, {"even", "odd"})) = 1
         /\ Cardinality(Named(r, n, {"red", "black"})) = 1
         /\ {o.name : o \in Named(r, n, EvenMoneyNames)}
               = {IF n <= 18 THEN "low" ELSE "high",
                  IF n % 2 = 0 THEN "even" ELSE "odd",
                  IF n \in StandardReds THEN "red" ELSE "black"}
    ELSE Named(r, n, EvenMoneyNames) = {}

C14_DoubleZeroDrawn ==
    /\ driver = "wheel test" /\ rules = "american" /\ LastDrawn = 37
    /\ Named(rules, LastDrawn, EvenMoneyNames) = {}

\* the outcomes of bin idx that pay odds
Paying(r, idx, odds) == {o \in Bin(r, idx) : o.odds = odds}

\* the name of the straight bet on bin n
StraightName(n) == IF n = 37 THEN "00" ELSE ToString(n)

\* C15: a default-rules (american) wheel has exactly 38 straight outcomes,
\* "0"-"36" and "00", odds 35, each in exactly one bin, the bin of its own
\* number ("00" in bin 37); on a european wheel the straight outcome of bin 0
\* is a PrisonOutcome, the one the registry holds under the name "0".
\* Checked on every bin a wheel under test draws, and every bin is drawn.
C15_StraightBets ==
    (driver = "wheel test" /\ LastDrawn # None) =>
        /\ rules = "american" =>
              /\ {o.name : o \in {x \in Wheel(rules).all_outcomes : x.odds = 35}}
                    = {StraightName(n) : n \in BinIndices}
              /\ Cardinality({x \in Wheel(rules).all_outcomes : x.odds = 35}) = 38
              /\ Paying(rules, LastDrawn, 35)
                    = {Outcome(StraightName(LastDrawn), 35)}
        /\ rules = "european" =>
              /\ get_outcome(rules, "0") = PrisonOutcome("0", 35)
              /\ LastDrawn = 0 =>
                    Paying(rules, LastDrawn, 35) = {PrisonOutcome("0", 35)}

\* the american wheel has drawn bin 37: its straight bet is "00"
C15_DoubleZeroStraight ==
    /\ driver = "wheel test" /\ rules = "american" /\ LastDrawn = 37
    /\ \E o \in Bin(rules, LastDrawn) : o.name = "00" /\ o.odds = 35

\* the european wheel has drawn bin 0: its straight bet is the PrisonOutcome
C15_PrisonZeroDrawn ==
    /\ driver = "wheel test" /\ rules = "european" /\ LastDrawn = 0
    /\ \E o \in Bin(rules, LastDrawn) : o.name = "0" /\ o.prison

\* the numbers in column 1 or 2 of rows 1-11: the top left corners of the
\* 2x2 blocks of the layout
CornerStarts == {n \in 1..32 : n % 3 \in {1, 2}}

CornerBlock(n) == {n, n + 1, n + 3, n + 4}

CornerName(n) == Fmt(<<n, n + 1, n + 3, n + 4>>)

\* the corner outcome of each block, by its top left number
CornerOf == [n \in CornerStarts |-> Outcome(CornerName(n), 8)]

\* C16: a built wheel has exactly 22 corner outcomes (odds 8); each is in
\* exactly the 4 bins {n, n+1, n+3, n+4} of one 2x2 block, n in column 1 or
\* 2 of rows 1-11, and in no other bin. Checked on every bin a wheel under
\* test draws (every bin is drawn): the corners it holds are those of the
\* blocks it lies in.
C16_CornerBets ==
    (driver = "wheel test" /\ LastDrawn # None) =>
        /\ Cardinality(CornerStarts) = 22
        /\ {x \in Wheel(rules).all_outcomes : x.odds = 8}
              = {CornerOf[n] : n \in CornerStarts}
        /\ Cardinality({x \in Wheel(rules).all_outcomes : x.odds = 8}) = 22
        /\ Paying(rules, LastDrawn, 8)
              = {CornerOf[n] :
                    n \in {m \in CornerStarts : LastDrawn \in CornerBlock(m)}}

\* bin 5, in the middle column, lies in four blocks
C16_FourCornersOfFive ==
    /\ driver = "wheel test" /\ LastDrawn = 5
    /\ {o.name : o \in Paying(rules, LastDrawn, 8)}
          = {"1-2-4-5", "2-3-5-6", "4-5-7-8", "5-6-8-9"}

\* the row of the layout a number 1-36 lies in
RowOf(n) == (n - 1) \div 3

\* the numbers the claim pairs n with: its neighbours in its row and the
\* numbers of its column in the rows next to its own
SplitPartners(n) ==
    IF n \notin 1..36 THEN {}
    ELSE {m \in 1..36 : \/ m \in {n - 1, n + 1} /\ RowOf(m) = RowOf(n)
                        \/ m \in {n - 3, n + 3}}

\* the split outcome of two numbers, the smaller first
SplitOf ==
    [a \in 1..36, b \in 1..36 |->
        Outcome(Fmt(IF a < b THEN <<a, b>> ELSE <<b, a>>), 17)]

\* C17: on a built wheel, for every number n in 1-36 the split outcomes
\* (odds 17) in bin n pair n with exactly those of n-1, n+1 that lie in its
\* row and those of n-3, n+3 that lie in 1-36, and with no other number;
\* bins 0 and 37 hold no split outcome. Checked on every bin a wheel under
\* test draws, and every bin is drawn.
C17_SplitBets ==
    (driver = "wheel test" /\ LastDrawn # None) =>
        Paying(rules, LastDrawn, 17)
            = {SplitOf[LastDrawn, m] : m \in SplitPartners(LastDrawn)}

\* bin 1, a corner of the layout, has two partners: 2 and 4
C17_SplitsOfOne ==
    /\ driver = "wheel test" /\ LastDrawn = 1
    /\ {o.name : o \in Paying(rules, LastDrawn, 17)} = {"1-2", "1-4"}

\* bin 3 ends its row: it is not paired with 4
C17_SplitsOfThree ==
    /\ driver = "wheel test" /\ LastDrawn = 3
    /\ {o.name : o \in Paying(rules, LastDrawn, 17)} = {"2-3", "3-6"}

\* s is t with one value appended
OneAppended(s, t) ==
    /\ Len(s) = Len(t) + 1
    /\ \A i \in 1..Len(t) : s[i] = t[i]

\* m is the largest entry of s
LargestOf(m, s) ==
    /\ \E i \in 1..Len(s) : s[i] = m
    /\ \A i \in 1..Len(s) : s[i] <= m

\* C18: each completed Simulator.session appends exactly one value to
\* durations and exactly one to maxima, changing no earlier entry, and
\* nothing else ever changes them; the duration appended is the number of
\* Game.cycle calls the session made, the stake history has duration + 1
\* entries of which the first is the initial stake, and the maximum
\* appended is the largest entry of that history.
C18_SessionStatistics ==
    [][/\ (durations' # durations \/ maxima' # maxima)
            => (pc = "session_loop" /\ pc' = "gather")
       /\ (pc = "session_loop" /\ pc' = "gather") =>
            /\ OneAppended(durations', durations)
            /\ OneAppended(maxima', maxima)
            /\ durations'[Len(durations')] = ncycles
            /\ stakes' = stakes
            /\ Len(stakes) = durations'[Len(durations')] + 1
            /\ stakes[1] = init_stake
            /\ LargestOf(maxima'[Len(maxima')], stakes)]_vars

\* a second Martingale session has completed, shorter than the first, and
\* left its own duration and maximum after the first session's
C18_SecondSessionRecorded ==
    /\ driver = "simulator" /\ kind = "Martingale" /\ pc = "gather"
    /\ Len(durations) = 2 /\ Len(maxima) = 2
    /\ durations[1] = init_duration /\ durations[2] = 2 /\ ncycles = 2
    /\ stakes = <<2, 1, 0>> /\ maxima[2] = 2

\* a session of a player that uses the base playing() is under way
CountedSession ==
    /\ driver = "simulator" /\ kind # "Passenger57"
    /\ pc = "session_loop" \/ InCycle

\* C19: for a player that uses the base playing() (Martingale, SevenReds,
\* PlayerRandom), in every state of a session 0 <= rounds <= init_duration;
\* each round lowers rounds by exactly 1 (the winners call does, nothing
\* else changes it, so between rounds rounds + duration = init_duration); a
\* further round is played if and only if rounds > 0 and stake > 0; and no
\* recorded duration exceeds init_duration.
C19_RoundsCounted ==
    /\ [](CountedSession =>
            /\ rounds \in 0..init_duration
            /\ pc = "session_loop" => rounds + duration = init_duration
            /\ duration <= init_duration)
    /\ []((driver = "simulator" /\ kind # "Passenger57") =>
            \A i \in 1..Len(durations) : durations[i] \in 0..init_duration)
    /\ [][CountedSession =>
            /\ (pc = "winners" /\ pc' # "winners") => rounds' = rounds - 1
            /\ (pc # "winners" /\ pc' # "session_loop" /\ pc' # "gather")
                  => rounds' = rounds
            /\ pc = "session_loop" =>
                  /\ pc' = "place_bets" <=> (rounds > 0 /\ stake > 0)
                  /\ pc' = "gather" <=> ~(rounds > 0 /\ stake > 0)]_vars

\* a Martingale session stopped by its stake: two bets lost, stake 0, and
\* rounds left over
C19_StoppedByStake ==
    /\ driver = "simulator" /\ kind = "Martingale" /\ init_stake = 2
    /\ pc = "gather" /\ durations = <<2>>
    /\ stake = 0 /\ rounds = init_duration - 2 /\ rounds > 0

\* a PlayerRandom session stopped by its rounds with its stake whole
C19_StoppedByRounds ==
    /\ driver = "simulator" /\ kind = "PlayerRandom" /\ pc = "gather"
    /\ durations = <<init_duration>> /\ init_duration = MaxRandomRounds
    /\ rounds = 0 /\ stake = init_stake

\* C20: at the start of every Simulator.session, whatever the session before
\* left behind, the player's stake is init_stake, its rounds init_duration,
\* Martingale's multiplier 0 and SevenReds' red_count 0; the table is empty
\* and the session's history and counter are new; of what a session
\* changes, only the statistics durations and maxima are carried over.
C20_SessionStartsAfresh ==
    /\ [][(pc = "gather" /\ pc' = "session_loop") =>
            /\ stake' = init_stake /\ rounds' = init_duration
            /\ multiplier' = 0 /\ red_count' = 0
            /\ bets' = <<>>
            /\ stakes' = <<init_stake>> /\ duration' = 0
            /\ durations' = durations /\ maxima' = maxima]_vars
    /\ []((driver = "simulator" /\ pc = "session_loop" /\ duration = 0) =>
            /\ Player = [Player_init EXCEPT !.stake = init_stake,
                                            !.rounds = init_duration]
            /\ bets = <<>> /\ stakes = <<init_stake>>)

\* a second Martingale session starts after one that lost two bets and
\* ended with stake 0, multiplier 2 and rounds left
C20_SecondSessionStarts ==
    /\ driver = "simulator" /\ kind = "Martingale" /\ init_stake = 2
    /\ pc = "session_loop" /\ duration = 0 /\ durations = <<2>>
    /\ stake = 2 /\ rounds = init_duration /\ multiplier = 0

\* a second SevenReds session starts after one that ended on a red bin
C20_SecondSevenRedsStarts ==
    /\ driver = "simulator" /\ kind = "SevenReds"
    /\ pc = "session_loop" /\ duration = 0 /\ Len(durations) = 1
    /\ red_count = 0 /\ rounds = init_duration

\* a session of a Martingale or SevenReds player is under way
MartingaleSession ==
    /\ driver = "simulator" /\ kind \in MartingaleFamily
    /\ pc = "session_loop" \/ InCycle

\* C21: in every state of a Martingale or SevenReds session
\* 0 <= stake <= init_stake; the stake recorded after a round is never
\* greater than the one recorded after the round before (a won bet only
\* returns the amount deducted when it was placed); so the maximum recorded
\* for such a session is init_stake.
C21_StakeNeverGrows ==
    (driver = "simulator" /\ kind \in MartingaleFamily) =>
        /\ MartingaleSession => (0 <= stake /\ stake <= init_stake)
        /\ \A i \in 1..(Len(stakes) - 1) : stakes[i + 1] <= stakes[i]
        /\ \A i \in 1..Len(stakes) : stakes[i] \in 0..init_stake
        /\ \A i \in 1..Len(maxima) : maxima[i] = init_stake

\* stake 1000: a bet of 1 lost, then a bet of 2 won, which returns the 2
\* and no more
C21_WonBetReturnsAmount ==
    /\ driver = "simulator" /\ kind = "Martingale" /\ init_stake = 1000
    /\ pc = "session_loop" /\ stakes = <<1000, 999, 999>>
    /\ stake = 999 /\ multiplier = 0

\* a session that lost its whole stake recorded init_stake as its maximum
C21_MaximumIsInitialStake ==
    /\ driver = "simulator" /\ kind = "Martingale" /\ init_stake = 2
    /\ pc = "gather" /\ stakes = <<2, 1, 0>> /\ maxima = <<2>>

\* a round of a PlayerRandom session in which place_bets has been called
RandomRoundPlayed ==
    /\ driver = "simulator" /\ kind = "PlayerRandom"
    /\ InCycle /\ pc # "place_bets"

\* C22: in every round that a PlayerRandom plays it places exactly one bet,
\* of its whole stake, on an outcome of the wheel's registry; placing and
\* resolving the bet leave the stake as it was; and the placement raises
\* InvalidBet exactly when the stake exceeds the table limit.
C22_RandomBet ==
    RandomRoundPlayed =>
        /\ stake = init_stake
        /\ placed.called
        /\ placed.by = "player" /\ placed.before = <<>>
        /\ placed.bet.amount = placed.stake_before
        /\ placed.stake_before = stake
        /\ placed.bet.outcome \in Wheel(rules).all_outcomes
        /\ placed.raised <=> (stake > limit)
        /\ placed.raised <=> (pc = "raised" /\ error = "InvalidBet")
        /\ pc \in {"next", "winners", "resolve"} => Len(bets) = 1

=============================================================================
